---- MODULE Spec2Model ----
(***************************************************************************)
(* A model of the two Blender add-ons of unreal_tools:                     *)
(*   mesh_morpher.py      (ShapeKeyBake: shape-key deltas into UV layers,  *)
(*                         normals into a vertex-colour attribute)         *)
(*   vertex_animation.py  (FrameBake: per-frame deltas and normals into    *)
(*                         two images, plus the "VAT" addressing UV layer) *)
(*                                                                         *)
(* Conventions of the model                                                *)
(*   - Python lists are sequences; At(s, i) is the 0-based s[i].           *)
(*   - Coordinates are integers.  In mesh_morpher they are Blender units;  *)
(*     in vertex_animation they are millimetres, so that the table of      *)
(*     get_max_allowed_deviation (metres in the source) is 1000/100/10/1.  *)
(*   - A colour channel (r+1)*0.5 is held in halves: the stored integer    *)
(*     is twice the value, so 1.0 is stored as 2.                          *)
(*   - A VAT texture coordinate is an exact fraction <<num, den>>.         *)
(*   - Lengths are compared through their squares.                         *)
(*   - A float that the code rounds or divides is held as its decimal      *)
(*     value together with what the binary representation adds: the sign   *)
(*     of (binary value - decimal value) for unit_settings.scale_length,   *)
(*     and float_excess for max_deviation / max_allowed_deviation.         *)
(***************************************************************************)
EXTENDS Integers, Sequences, FiniteSets, TLC

VARIABLES
    addon,          \* which add-on's operator the behaviour drives
    runs,           \* number of execute() invocations so far
    result,         \* return value of the last execute(), or the exception that left it
    report,         \* the message of the last self.report({'ERROR'}, ...)
    \* ---- mesh_morpher: the active object and the operator's properties
    units,          \* context.scene.unit_settings
    op,             \* properties of OBJECT_OT_ProcessShapeKeys
    loops,          \* me.loops: loop.index -> loop.vertex_index
    key_blocks,     \* ob.data.shape_keys.key_blocks (<<>>: shape_keys is None)
    vertex_colors,  \* me.vertex_colors
    uv_layers,      \* me.uv_layers
    offsets,        \* the channel lists execute() got from get_shape_key_offsets
    \* ---- vertex_animation: the scene, the selected objects and bpy.data
    scene,          \* frame_start/end/step/current, coord_system, target_units, vertex_group_name
    objects,        \* the selected MESH objects, in selection order
    ob_uv_layers,   \* ob.data.uv_layers of each selected object
    anim,           \* the animation the depsgraph evaluates: amplitude and direction
    float_excess,   \* whether the host's float quotient of an exact multiple lands above it
    data_meshes,    \* ids of the snapshot meshes present in bpy.data.meshes
    images,         \* bpy.data.images
    meshes,         \* execute()'s list of snapshot meshes
    max_deviation,  \* execute()'s max_deviation, squared
    scale_factor,   \* execute()'s scale_factor
    deviation_order,\* ids of the snapshots in the order find_max_deviation visited them
    bake_calls,     \* the arguments of each bake_vertex_data call of the last pass
    removed_reads   \* ids of the snapshots read after data.meshes.remove(me)

shape_vars == <<units, op, loops, key_blocks, vertex_colors, uv_layers, offsets>>
frame_vars == <<scene, objects, ob_uv_layers, anim, float_excess, data_meshes, images,
                meshes, max_deviation, scale_factor, deviation_order, bake_calls,
                removed_reads>>
vars == <<addon, runs, result, report, shape_vars, frame_vars>>

(***************************************************************************)
(* Bounds of the model                                                     *)
(***************************************************************************)
MaxRuns == 2
\* the largest scene.frame_end tried (frame_start is 1)
MaxFrameEnd == 3
\* the most vertices of one selected object
MaxVerts == 2
\* update_uv_layer on its own: the most vertices and the most face corners of the mesh
MaxUVVerts == 3
MaxUVLoops == 3

(***************************************************************************)
(* Python helpers                                                          *)
(***************************************************************************)
At(s, i) == s[i + 1]
Max(a, b) == IF a >= b THEN a ELSE b

RECURSIVE Extend(_, _)
\* seq + [x] * n
Extend(s, n) == IF n = 0 THEN s.acc ELSE Extend([acc |-> Append(s.acc, s.x), x |-> s.x], n - 1)
Repeat(x, n) == Extend([acc |-> <<>>, x |-> x], n)

(***************************************************************************)
(* mesh_morpher.py                                                         *)
(***************************************************************************)
UV_LAYER_LIMIT == 8

\* me.vertex_colors.new(): a fresh attribute, white on every loop
NewColorLayer(nloops) == [name |-> "Col", data |-> Repeat(<<2, 2, 2, 2>>, nloops)]
\* A fresh UV layer, (0, 0) on every loop
NewUVLayer(name, nloops) == [name |-> name, data |-> Repeat(<<0, 0>>, nloops)]
\* me.uv_layers.new(name=name): the layers afterwards and the index of the new
\* layer, 0 for the None that a mesh already at the limit of layers returns
uv_layers_new(layers, name, nloops) ==
    IF Len(layers) >= UV_LAYER_LIMIT THEN [layers |-> layers, at |-> 0]
    ELSE [layers |-> Append(layers, NewUVLayer(name, nloops)), at |-> Len(layers) + 1]

\* list(zip(*[iter(flat)]*3)): the flat normal list grouped in triples
Triples(flat) == [v \in 1 .. (Len(flat) \div 3) |->
                    <<flat[3 * v - 2], flat[3 * v - 1], flat[3 * v]>>]

\* The colour pack_normals stores for a normal (r, g, b), in halves
NormalColor(n) == <<n[1] + 1, (-n[2]) + 1, n[3] + 1, 2>>

\* pack_normals(me, shape_key_index): the vertex colours it leaves behind and
\* the exception it raises, if any
pack_normals(vcols, lps, keys, shape_key_index) ==
    LET created == IF vcols = <<>> THEN <<NewColorLayer(Len(lps))>> ELSE vcols
        renamed == [created EXCEPT ![1].name = "normals"]
    IN  IF shape_key_index >= Len(keys)
        THEN [vertex_colors |-> renamed, raised |-> "IndexError"]
        ELSE LET key == At(keys, shape_key_index)
                 normals == Triples(key.normals)
                 data == [li \in 1 .. Len(lps) |-> NormalColor(At(normals, lps[li]))]
             IN  [vertex_colors |-> [renamed EXCEPT ![1].data = data],
                  raised |-> "none"]

\* The three channels one vertex of one shape key contributes
UEOffset(co, base) ==
    LET x == co[1] - base[1]
        y == co[2] - base[2]
        z == co[3] - base[3]
    IN  <<-y, x, z>>

\* get_shape_key_offsets(shape_keys, num_shape_keys): 3 * num lists, one entry per vertex
get_shape_key_offsets(keys, num_shape_keys) ==
    LET original == At(keys, 0).data
    IN  [c \in 1 .. (num_shape_keys * 3) |->
            LET i == ((c - 1) \div 3) + 1
                target == At(keys, i).data
                nzip == IF Len(target) < Len(original) THEN Len(target) ELSE Len(original)
            IN  [v \in 1 .. nzip |-> UEOffset(target[v], original[v])[((c - 1) % 3) + 1]]]

\* lines 72-73 of pack_offsets
NumUVNeeded(shape_keys) == (shape_keys \div 2) * 3 + (shape_keys % 2) * 2

\* Mutant of OverCapacity: the boundary total of exactly 8 layers is refused
OverCapacity_AtLimit(required_uv_layers) == required_uv_layers >= 8

\* line 75 of pack_offsets
OverCapacity(required_uv_layers) == required_uv_layers > UV_LAYER_LIMIT

Axes == <<"X", "Y", "Z">>

\* The while loop of pack_offsets (lines 84-102): one layer per iteration
RECURSIVE CreateLayers(_, _, _, _, _, _, _)
CreateLayers(layers, existing, required, nloops, uv_index, morph_index, axis_index) ==
    IF ~(uv_index + existing < required) THEN layers
    ELSE LET a1 == At(Axes, axis_index % 3)
             p1 == ToString(morph_index) \o a1
             m1 == IF a1 = "Z" THEN morph_index + 1 ELSE morph_index
             a2 == At(Axes, (axis_index + 1) % 3)
             p2 == ToString(m1) \o a2
             m2 == IF a2 = "Z" THEN m1 + 1 ELSE m1
             ax == axis_index + 2
             name == IF uv_index + existing = required - 1 /\ ax % 3 # 0
                     THEN "Morph " \o p1
                     ELSE "Morph " \o p1 \o " " \o p2
         IN  CreateLayers(uv_layers_new(layers, name, nloops).layers, existing, required,
                          nloops, uv_index + 1, m2, ax)

\* lines 109-114: the UV written to layer start_uv_index + i for a vertex
PackedUV(offs, i, vertex_index) ==
    LET m1 == IF ((i * 2) \div 3) % 2 = 0 THEN 1 ELSE -1
        m2 == IF ((i * 2 + 1) \div 3) % 2 = 0 THEN 1 ELSE -1
        U == At(At(offs, i * 2), vertex_index)
        V == IF i * 2 + 1 < Len(offs) THEN At(At(offs, i * 2 + 1), vertex_index) ELSE 0
    IN  <<U * m1, 1 + V * m2>>

\* pack_offsets(ob, offsets, start_uv_index)
pack_offsets(layers, lps, offs, start_uv_index) ==
    LET shape_keys == Len(offs) \div 3
        num_uv_needed == NumUVNeeded(shape_keys)
        required_uv_layers == start_uv_index + num_uv_needed
    IN  IF OverCapacity(required_uv_layers)
        THEN [uv_layers |-> layers, raised |-> "ValueError"]
        ELSE LET created == CreateLayers(layers, Len(layers), required_uv_layers,
                                         Len(lps), 0, 1, 0)
                 written == [L \in 1 .. Len(created) |->
                               LET i == (L - 1) - start_uv_index
                               IN  IF i >= 0 /\ i < num_uv_needed
                                   THEN [created[L] EXCEPT !.data =
                                           [li \in 1 .. Len(lps) |-> PackedUV(offs, i, lps[li])]]
                                   ELSE created[L]]
             IN  [uv_layers |-> written, raised |-> "none"]

\* round(units.scale_length, 2), the result in hundredths.  The float is held as
\* its decimal value in thousandths and the sign of (binary value - decimal
\* value); round() rounds the binary value, to the even hundredth on an exact tie.
Round2(milli, error) ==
    LET down == milli \div 10
    IN  IF milli % 10 < 5 THEN down
        ELSE IF milli % 10 > 5 THEN down + 1
        ELSE IF error < 0 THEN down
        ELSE IF error > 0 THEN down + 1
        ELSE IF down % 2 = 0 THEN down ELSE down + 1

MsgUnits == "Scene Units must be Metric with a Unit Scale of 0.01!"
MsgNoKeys == "Object has no shape keys!"
MsgMoreKeys == "Object needs additional shape keys!"
MsgNormalIndex == "Invalid shape key index for baking normals."
MsgCapacity == "Not enough UV layers to store the specified number of shape keys."

\* OBJECT_OT_ProcessShapeKeys.execute
ProcessShapeKeys ==
    /\ addon = "mesh_morpher"
    /\ runs < MaxRuns
    /\ runs' = runs + 1
    /\ UNCHANGED <<addon, units, op, loops, key_blocks, frame_vars>>
    /\ IF units.system # "METRIC" \/ Round2(units.scale_length, units.scale_error) # 1
       THEN /\ result' = "CANCELLED" /\ report' = MsgUnits
            /\ UNCHANGED <<vertex_colors, uv_layers, offsets>>
       ELSE IF key_blocks = <<>>
       THEN /\ result' = "CANCELLED" /\ report' = MsgNoKeys
            /\ UNCHANGED <<vertex_colors, uv_layers, offsets>>
       ELSE IF Len(key_blocks) < 1 + op.num_shape_keys
       THEN /\ result' = "CANCELLED" /\ report' = MsgMoreKeys
            /\ UNCHANGED <<vertex_colors, uv_layers, offsets>>
       ELSE LET pn == IF op.bake_normal
                      THEN pack_normals(vertex_colors, loops, key_blocks,
                                        op.normal_shape_key_index)
                      ELSE [vertex_colors |-> vertex_colors, raised |-> "none"]
            IN  /\ vertex_colors' = pn.vertex_colors
                /\ IF pn.raised = "IndexError"
                   THEN /\ result' = "CANCELLED" /\ report' = MsgNormalIndex
                        /\ UNCHANGED <<uv_layers, offsets>>
                   ELSE LET offs == get_shape_key_offsets(key_blocks, op.num_shape_keys)
                            po == pack_offsets(uv_layers, loops, offs, op.start_uv_index)
                        IN  /\ offsets' = offs
                            /\ uv_layers' = po.uv_layers
                            /\ IF po.raised = "ValueError"
                               THEN result' = "CANCELLED" /\ report' = MsgCapacity
                               ELSE result' = "FINISHED" /\ report' = report

(***************************************************************************)
(* vertex_animation.py                                                     *)
(***************************************************************************)
MAX_VERTEX_COUNT == 8192
MAX_FRAME_COUNT == 8192

Reversed(s) == [i \in 1 .. Len(s) |-> s[Len(s) + 1 - i]]
CeilDiv(a, b) == (a + b - 1) \div b

\* frame_range(scene): range(frame_start, frame_end, frame_step), as a list
frame_range(sc) ==
    LET n == IF sc.frame_end <= sc.frame_start THEN 0
             ELSE CeilDiv(sc.frame_end - sc.frame_start, sc.frame_step)
    IN  [i \in 1 .. n |-> sc.frame_start + (i - 1) * sc.frame_step]

\* What the depsgraph evaluates: world position and normal of vertex v of the
\* object of the given shape at frame f (the animation is an input of the model)
AnimDir(dir, shape, v) == IF dir = "axial" THEN <<0, 0, 1 + v + shape>>
                          ELSE <<1, -2, 3 + v + 2 * shape>>
AnimRest(shape, v) == <<5 * shape + v, 2 * v - shape, shape + 1>>
AnimCo(an, shape, f, v) ==
    [c \in 1 .. 3 |-> AnimRest(shape, v)[c] + an.amp * f * AnimDir(an.dir, shape, v)[c]]
AnimNormal(shape, f, v) ==
    LET k == (shape + f + v) % 4
    IN  IF k = 0 THEN <<0, 0, 1>> ELSE IF k = 1 THEN <<0, -1, 0>>
        ELSE IF k = 2 THEN <<1, 0, 0>> ELSE <<-1, 0, 0>>

RECURSIVE SumVerts(_)
\* sum([len(ob.data.vertices) for ob in objects])
SumVerts(obs) == IF obs = <<>> THEN 0 ELSE Head(obs).nverts + SumVerts(Tail(obs))

RECURSIVE MergeVertices(_, _, _)
\* bm.from_mesh(me) for each object in turn: the vertices of all objects, concatenated
MergeVertices(obs, an, f) ==
    IF obs = <<>> THEN <<>>
    ELSE LET ob == Head(obs)
         IN  [v \in 1 .. ob.nverts |-> [co |-> AnimCo(an, ob.shape, f, v - 1),
                                       normal |-> AnimNormal(ob.shape, f, v - 1)]]
             \o MergeVertices(Tail(obs), an, f)

\* get_per_frame_mesh_data(context, data, objects): one merged mesh per frame.  A
\* mesh datablock has vertices; vertex groups belong to objects, not to meshes.
get_per_frame_mesh_data(sc, obs, an, run) ==
    LET frames == frame_range(sc)
    IN  [i \in 1 .. Len(frames) |->
            [id |-> <<run, i>>, vertices |-> MergeVertices(obs, an, frames[i])]]

\* get_max_allowed_deviation(target_unit), in millimetres
get_max_allowed_deviation(target_unit) ==
    IF target_unit = "M" THEN 1000
    ELSE IF target_unit = "DM" THEN 100
    ELSE IF target_unit = "CM" THEN 10
    ELSE IF target_unit = "MM" THEN 1
    ELSE 10

Sub(a, b) == <<a[1] - b[1], a[2] - b[2], a[3] - b[3]>>
LengthSq(d) == d[1] * d[1] + d[2] * d[2] + d[3] * d[3]

RECURSIVE ScanVertices(_, _, _, _)
\* lines 82-85: the inner loop of find_max_deviation
ScanVertices(verts, original, k, max_sq) ==
    IF k > Len(verts) THEN max_sq
    ELSE LET offset == LengthSq(Sub(verts[k].co, original[k].co))
         IN  ScanVertices(verts, original, k + 1, IF offset > max_sq THEN offset ELSE max_sq)

\* The order in which find_max_deviation walks the list (line 81)
DeviationTraversal(ms) == Reversed(ms)

RECURSIVE ScanMeshes(_, _, _)
ScanMeshes(ms, original, st) ==
    IF ms = <<>> THEN st
    ELSE ScanMeshes(Tail(ms), original,
                    [max_sq |-> ScanVertices(Head(ms).vertices, original, 1, st.max_sq),
                     order |-> Append(st.order, Head(ms).id)])

\* find_max_deviation(meshes); meshes is not empty
find_max_deviation(ms) ==
    ScanMeshes(DeviationTraversal(ms), At(ms, 0).vertices, [max_sq |-> 0, order |-> <<>>])

RECURSIVE LeastRoot(_, _)
LeastRoot(n, r) == IF r * r >= n THEN r ELSE LeastRoot(n, r + 1)
\* math.ceil(sqrt(n)): the least r with r * r >= n
CeilSqrt(n) == LeastRoot(n, 0)

\* calculate_scale(max_deviation, target_unit): 1.0 (a float) when nothing moves,
\* else the int math.ceil(max_deviation / max_allowed_deviation).  The quotient
\* is a float: when max_deviation is an exact multiple k of the allowed
\* deviation it is k or just above k, as the host's arithmetic has it (excess),
\* and math.ceil then gives k or k + 1.
calculate_scale(max_sq, target_unit, excess) ==
    LET max_allowed_deviation == get_max_allowed_deviation(target_unit)
        root == CeilSqrt(max_sq)
        multiple == root * root = max_sq /\ root % max_allowed_deviation = 0
    IN  IF max_sq > 0
        THEN [value |-> CeilDiv(root, max_allowed_deviation)
                        + (IF multiple /\ excess THEN 1 ELSE 0),
              is_float |-> FALSE]
        ELSE [value |-> 1, is_float |-> TRUE]

\* f"{scale_factor}"
FormatScale(sf) == IF sf.is_float THEN ToString(sf.value) \o ".0" ELSE ToString(sf.value)

VAT == "VAT"

\* Mutant of ActiveU: the texel centres without the reserved first slot
ActiveU_NoReservedSlot(current_group_position, total_group_vertices) ==
    <<2 * current_group_position + 1, 2 * (total_group_vertices + 1)>>

\* line 132: U of the active vertex at current_group_position
ActiveU(current_group_position, total_group_vertices) ==
    <<2 * current_group_position + 3, 2 * (total_group_vertices + 1)>>
\* line 136: U of every vertex outside the group
ReservedU(total_group_vertices) == <<1, 2 * (total_group_vertices + 1)>>

RECURSIVE PlaceLoops(_, _, _, _, _)
\* lines 119-142 of update_uv_layer: st is (current_group_position, uv_for_vertex, data)
PlaceLoops(lps, li, group_vertices, total_group_vertices, st) ==
    IF li > Len(lps) THEN st.data
    ELSE LET vertex_index == lps[li]
             vertex_in_group == group_vertices.is_none \/ vertex_index \in group_vertices.members
             fresh == vertex_index \notin DOMAIN st.uv_for_vertex
             uv == IF vertex_in_group
                   THEN <<ActiveU(st.pos, total_group_vertices), <<1, 2>>>>
                   ELSE <<ReservedU(total_group_vertices), <<1, 2>>>>
             table == IF fresh
                      THEN [x \in DOMAIN st.uv_for_vertex \cup {vertex_index} |->
                              IF x = vertex_index THEN uv ELSE st.uv_for_vertex[x]]
                      ELSE st.uv_for_vertex
         IN  PlaceLoops(lps, li + 1, group_vertices, total_group_vertices,
                        [pos |-> IF fresh /\ vertex_in_group THEN st.pos + 1 ELSE st.pos,
                         uv_for_vertex |-> table,
                         data |-> [st.data EXCEPT ![li] = table[vertex_index]]])

LayerIndex(layers, name) ==
    IF \E i \in 1 .. Len(layers) : layers[i].name = name
    THEN CHOOSE i \in 1 .. Len(layers) :
            layers[i].name = name /\ \A j \in 1 .. (i - 1) : layers[j].name # name
    ELSE 0

\* lines 108-116: group_vertices of update_uv_layer, None or a set of vertex indices
GroupVertices(ob, vertex_group_name) ==
    IF vertex_group_name # "" /\ vertex_group_name \in DOMAIN ob.vertex_groups
    THEN [is_none |-> FALSE, members |-> ob.vertex_groups[vertex_group_name]]
    ELSE [is_none |-> TRUE, members |-> {}]

\* update_uv_layer(ob, vertex_group_name): the object's UV layers afterwards and
\* the exception it raises, if any.  When uv_layers.new returned None, the first
\* uv_layer.data of the loop over me.loops (line 142) raises AttributeError.
update_uv_layer(ob, layers, vertex_group_name) ==
    LET got == LayerIndex(layers, VAT)
        new == IF got = 0 THEN uv_layers_new(layers, VAT, Len(ob.loops))
               ELSE [layers |-> layers, at |-> got]
        with == new.layers
        at == new.at
        group_vertices == GroupVertices(ob, vertex_group_name)
        total_group_vertices == IF group_vertices.is_none THEN ob.nverts
                                ELSE Cardinality(group_vertices.members)
    IN  IF at = 0
        THEN [layers |-> with,
              raised |-> IF ob.loops = <<>> THEN "none" ELSE "AttributeError"]
        ELSE [layers |-> [with EXCEPT ![at].data =
                            PlaceLoops(ob.loops, 1, group_vertices, total_group_vertices,
                                       [pos |-> 0, uv_for_vertex |-> <<>>,
                                        data |-> with[at].data])],
              raised |-> "none"]

\* Mutant of OffsetCell: the cell without its alpha channel
OffsetCell_NoAlpha(coord_system, o) ==
    IF coord_system = "BLENDER" THEN <<o[1], -o[2], o[3]>>
    ELSE IF coord_system = "UE" THEN <<-o[2], -o[1], o[3]>>
    ELSE <<>>

\* lines 173-178: the four offset channels of one vertex
OffsetCell(coord_system, o) ==
    IF coord_system = "BLENDER" THEN <<o[1], -o[2], o[3], 1>>
    ELSE IF coord_system = "UE" THEN <<-o[2], -o[1], o[3], 1>>
    ELSE <<>>

\* lines 175, 178: the four normal channels of one vertex, in halves
NormalCell(coord_system, n) ==
    IF coord_system = "BLENDER" THEN <<n[1] + 1, (-n[2]) + 1, n[3] + 1, 2>>
    ELSE IF coord_system = "UE" THEN <<(-n[2]) + 1, (-n[1]) + 1, n[3] + 1, 2>>
    ELSE <<>>

\* line 171: (v.co - original[v.index].co) * scale_factor
Scaled(d, scale) == <<d[1] * scale, d[2] * scale, d[3] * scale>>

RECURSIVE EmitVertices(_, _, _, _, _)
\* lines 166-178: the loop over one snapshot's vertices.  vertex_group is None
\* whenever the loop is reached (line 159 raises for a non-empty name), so the
\* filter of lines 168-169 skips nothing.
EmitVertices(verts, k, original, cfg, acc) ==
    IF k > Len(verts) THEN acc
    ELSE EmitVertices(verts, k + 1, original, cfg,
             [offsets |-> acc.offsets \o OffsetCell(cfg.coord_system,
                             Scaled(Sub(verts[k].co, original[k].co), cfg.scale)),
              normals |-> acc.normals \o NormalCell(cfg.coord_system, verts[k].normal)])

\* Mutant of PackTraversal: the snapshots are packed in sampling order
PackTraversal_Forward(ms) == ms

\* The order in which get_vertex_data walks the list (line 157)
PackTraversal(ms) == Reversed(ms)

\* lines 158-181 for one snapshot: its cells appended, the snapshot removed
EmitOne(me, original, cfg, st, gone) ==
    LET out == EmitVertices(me.vertices, 1, original, cfg,
                            [offsets |-> st.offsets, normals |-> st.normals])
    IN  [offsets |-> out.offsets, normals |-> out.normals,
         live |-> st.live \ {me.id},
         order |-> Append(st.order, me.id),
         removed_reads |-> IF gone THEN st.removed_reads \cup {me.id} ELSE st.removed_reads,
         raised |-> "none"]

RECURSIVE EmitMeshes(_, _, _, _)
\* lines 157-181: the loop over the snapshots.  A snapshot that is no longer in
\* data.meshes is a dangling reference: reading it either raises ReferenceError
\* or yields the contents it had (cfg.dangling).  With a non-empty group name,
\* line 159 evaluates me.vertex_groups, which a mesh datablock does not have:
\* AttributeError.
EmitMeshes(ms, original, cfg, st) ==
    IF ms = <<>> \/ st.raised # "none" THEN st
    ELSE IF Head(ms).id \notin st.live /\ cfg.dangling = "ReferenceError"
         THEN [st EXCEPT !.raised = "ReferenceError",
                         !.removed_reads = @ \cup {Head(ms).id}]
         ELSE IF cfg.vertex_group_name # ""
         THEN [st EXCEPT !.raised = "AttributeError",
                         !.removed_reads = IF Head(ms).id \notin st.live
                                           THEN @ \cup {Head(ms).id} ELSE @]
         ELSE EmitMeshes(Tail(ms), original, cfg,
                  EmitOne(Head(ms), original, cfg, st, Head(ms).id \notin st.live))

\* get_vertex_data(data, meshes, scale_factor, vertex_group_name); meshes is not empty
get_vertex_data(live, ms, cfg) ==
    LET base == At(ms, 0)
        gone == base.id \notin live
        st0 == [offsets |-> <<>>, normals |-> <<>>, live |-> live, order |-> <<>>,
                removed_reads |-> IF gone THEN {base.id} ELSE {}, raised |-> "none"]
    IN  IF gone /\ cfg.dangling = "ReferenceError"
        THEN [st0 EXCEPT !.raised = "ReferenceError"]
        ELSE EmitMeshes(PackTraversal(ms), base.vertices, cfg, st0)

ImageIndex(imgs, name) ==
    IF \E i \in 1 .. Len(imgs) : imgs[i].name = name
    THEN CHOOSE i \in 1 .. Len(imgs) : imgs[i].name = name
    ELSE 0

\* Mutant of GetOrNewImage: a new image on every bake, never the existing one
GetOrNewImage_AlwaysNew(imgs, name, width, height, float_buffer) ==
    Append(imgs, [name |-> name, width |-> width, height |-> height,
                  float_buffer |-> float_buffer, pixels |-> <<>>])

\* data.images.get(name), scaled, or data.images.new(...): lines 195-215
GetOrNewImage(imgs, name, width, height, float_buffer) ==
    LET got == ImageIndex(imgs, name)
    IN  IF got # 0
        THEN [imgs EXCEPT ![got].width = width, ![got].height = height]
        ELSE Append(imgs, [name |-> name, width |-> width, height |-> height,
                           float_buffer |-> float_buffer, pixels |-> <<>>])

\* bake_vertex_data(data, offsets, normals, size, name, scale_factor)
bake_vertex_data(imgs, offs, norms, size, name, sf) ==
    LET wpo_texture_name == "T_" \o name \o "_Scale" \o FormatScale(sf) \o "_O"
        normal_texture_name == "T_" \o name \o "_N"
        with_o == GetOrNewImage(imgs, wpo_texture_name, size[1], size[2], TRUE)
        with_n == GetOrNewImage(with_o, normal_texture_name, size[1], size[2], FALSE)
    IN  [with_n EXCEPT ![ImageIndex(with_n, wpo_texture_name)].pixels = offs,
                       ![ImageIndex(with_n, normal_texture_name)].pixels = norms]

ALLOWED_MODIFIERS == {"ARMATURE", "CAST", "CURVE", "DISPLACE", "HOOK", "LAPLACIANDEFORM",
                      "LATTICE", "MESH_DEFORM", "SHRINKWRAP", "SIMPLE_DEFORM", "SMOOTH",
                      "CORRECTIVE_SMOOTH", "LAPLACIANSMOOTH", "SURFACE_DEFORM", "WARP", "WAVE"}

\* The first modifier type, over all objects in order, that is not allowed; "" if none
RECURSIVE FirstBadModifier(_)
FirstBadModifier(mods) ==
    IF mods = <<>> THEN ""
    ELSE IF Head(mods) \notin ALLOWED_MODIFIERS THEN Head(mods)
    ELSE FirstBadModifier(Tail(mods))

RECURSIVE AllModifiers(_)
AllModifiers(obs) == IF obs = <<>> THEN <<>> ELSE Head(obs).modifiers \o AllModifiers(Tail(obs))

UpperCase == "ABCDEFGHIJKLMNOPQRSTUVWXYZ"
LowerCase == "abcdefghijklmnopqrstuvwxyz"
\* The position of the one-character string c in s, 0 if it is not there
IndexIn(c, s) == IF \E i \in 1 .. Len(s) : SubSeq(s, i, i) = c
                 THEN CHOOSE i \in 1 .. Len(s) : SubSeq(s, i, i) = c
                 ELSE 0

RECURSIVE TitleFrom(_, _, _)
\* str.title() from character i on: a letter that follows a letter is lowered,
\* any other letter is raised, every other character is kept
TitleFrom(s, i, after_letter) ==
    IF i > Len(s) THEN ""
    ELSE LET c == SubSeq(s, i, i)
             up == IndexIn(c, UpperCase)
             low == IndexIn(c, LowerCase)
             at == IF up # 0 THEN up ELSE low
             out == IF at = 0 THEN c
                    ELSE IF after_letter THEN SubSeq(LowerCase, at, at)
                    ELSE SubSeq(UpperCase, at, at)
         IN  out \o TitleFrom(s, i + 1, at # 0)

\* mod.type.title()
Title(type) == TitleFrom(type, 1, FALSE)

RECURSIVE Commas(_)
\* f"{n :,}": a comma before every group of three digits
Commas(n) ==
    LET low == n % 1000
        pad == IF low < 10 THEN "00" ELSE IF low < 100 THEN "0" ELSE ""
    IN  IF n < 1000 THEN ToString(n)
        ELSE Commas(n \div 1000) \o "," \o pad \o ToString(low)

\* lines 276-277 for one object, given what get_vertex_data returned
BakeOne(ob, cfg, st, got) ==
    IF got.raised # "none"
    THEN [st EXCEPT !.live = got.live, !.removed_reads = @ \cup got.removed_reads,
                    !.raised = got.raised]
    ELSE [st EXCEPT
            !.live = got.live,
            !.removed_reads = @ \cup got.removed_reads,
            !.images = bake_vertex_data(@, got.offsets, got.normals,
                                        cfg.texture_size, ob.name, cfg.sf),
            !.calls = Append(@, [name |-> ob.name, size |-> cfg.texture_size,
                                 offsets |-> got.offsets, normals |-> got.normals,
                                 order |-> got.order])]

RECURSIVE BakeObjects(_, _, _, _, _)
\* lines 273-277: the loop over the selected objects
BakeObjects(obs, i, ms, cfg, st) ==
    IF i > Len(obs) \/ st.raised # "none" THEN st
    ELSE LET uv == update_uv_layer(obs[i], st.uv[i], cfg.vertex_group_name)
         IN  IF uv.raised # "none"
             THEN [st EXCEPT !.uv[i] = uv.layers, !.raised = uv.raised]
             ELSE BakeObjects(obs, i + 1, ms, cfg,
                     BakeOne(obs[i], cfg, [st EXCEPT !.uv[i] = uv.layers],
                             get_vertex_data(st.live, ms, cfg)))

\* What reading a removed snapshot does
DanglingOutcomes == {"ReferenceError", "stale"}

\* OBJECT_OT_ProcessAnimMeshes.execute
ProcessAnimMeshes ==
    /\ addon = "vertex_animation"
    /\ runs < MaxRuns
    /\ runs' = runs + 1
    /\ UNCHANGED <<addon, shape_vars, objects, anim, float_excess>>
    /\ LET vertex_count == SumVerts(objects)
           frames == frame_range(scene)
           frame_count == Len(frames)
           bad == FirstBadModifier(AllModifiers(objects))
           cancel(msg) ==
               /\ result' = "CANCELLED" /\ report' = msg
               /\ UNCHANGED <<scene, ob_uv_layers, data_meshes, images, meshes,
                              max_deviation, scale_factor, deviation_order, bake_calls,
                              removed_reads>>
       IN  IF bad # ""
           THEN cancel("Objects with " \o Title(bad) \o " modifiers are not allowed!")
           ELSE IF vertex_count > MAX_VERTEX_COUNT
           THEN cancel("Vertex count of " \o Commas(vertex_count)
                       \o ", exceeds limit of 8,192!")
           ELSE IF frame_count > MAX_FRAME_COUNT
           THEN cancel("Frame count of " \o Commas(frame_count)
                       \o ", exceeds limit of 8,192!")
           ELSE \E ms \in {get_per_frame_mesh_data(scene, objects, anim, runs + 1)} :
                /\ meshes' = ms
                /\ report' = report
                /\ IF ms = <<>>
                   THEN \* meshes[0] in find_max_deviation
                        /\ result' = "IndexError"
                        /\ UNCHANGED <<scene, data_meshes, ob_uv_layers, images,
                                       max_deviation, scale_factor, deviation_order,
                                       bake_calls, removed_reads>>
                   ELSE \E dangling \in DanglingOutcomes :
                        \E dev \in {find_max_deviation(ms)} :
                        \E sf \in {calculate_scale(dev.max_sq, scene.target_units,
                                                  float_excess)} :
                        \E end \in {BakeObjects(objects, 1, ms,
                                      [scale |-> sf.value, sf |-> sf,
                                       coord_system |-> scene.coord_system,
                                       vertex_group_name |-> scene.vertex_group_name,
                                       texture_size |-> <<vertex_count, frame_count>>,
                                       dangling |-> dangling],
                                      [uv |-> ob_uv_layers, images |-> images,
                                       live |-> data_meshes
                                                \cup {ms[i].id : i \in 1 .. Len(ms)},
                                       calls |-> <<>>, removed_reads |-> {},
                                       raised |-> "none"])} :
                            /\ max_deviation' = dev.max_sq
                            /\ deviation_order' = dev.order
                            /\ scale_factor' = sf
                            /\ ob_uv_layers' = end.uv
                            /\ images' = end.images
                            /\ data_meshes' = end.live
                            /\ bake_calls' = end.calls
                            /\ removed_reads' = end.removed_reads
                            /\ IF end.raised # "none"
                               THEN /\ result' = end.raised
                                    /\ scene' = [scene EXCEPT
                                                   !.frame_current = frames[frame_count]]
                               ELSE /\ result' = "FINISHED"
                                    /\ scene' = scene

(***************************************************************************)
(* Inputs of the shape-key bake                                            *)
(***************************************************************************)
\* The meshes tried: two vertices, the face corners in one of these orders
LoopOrders == {<<0, 1, 1, 0>>, <<1, 0, 1>>}

\* Position and normal of vertex v (0-based) in shape key k (0: the basis)
KeyCo(k, v) == <<3 * k + v + k * v, (k * k) + 2 * v + 3 * k * v, (-2 * k) - v - 2 * k * v>>
KeyNormal(k, v) == IF (k + v) % 3 = 0 THEN <<0, 0, 1>>
                   ELSE IF (k + v) % 3 = 1 THEN <<0, -1, 0>> ELSE <<1, 0, 0>>
KeyBlock(k) == [data |-> <<KeyCo(k, 0), KeyCo(k, 1)>>,
                normals |-> KeyNormal(k, 0) \o KeyNormal(k, 1)]
KeyBlocks(n) == [k \in 1 .. n |-> KeyBlock(k - 1)]

\* unit_settings: the system, scale_length in thousandths and the sign of what
\* the binary float adds to it.  0.01 and 1.0 as Blender's 32-bit float holds
\* them, 0.015 (below the tie in 32 and in 64 bits), and 0.005, which is below
\* the tie as a 32-bit float and above it as a 64-bit one.
UnitSettings == {[system |-> "METRIC", scale_length |-> 10, scale_error |-> -1],
                 [system |-> "METRIC", scale_length |-> 1000, scale_error |-> 0],
                 [system |-> "IMPERIAL", scale_length |-> 10, scale_error |-> -1],
                 [system |-> "METRIC", scale_length |-> 15, scale_error |-> -1],
                 [system |-> "METRIC", scale_length |-> 5, scale_error |-> -1],
                 [system |-> "METRIC", scale_length |-> 5, scale_error |-> 1]}

OpSettings == [bake_normal : BOOLEAN, normal_shape_key_index : {1, 3},
               num_shape_keys : 1 .. 4, start_uv_index : 0 .. 7]

ExistingUV(n, nloops) == [i \in 1 .. n |-> NewUVLayer("UVMap" \o ToString(i), nloops)]

\* The other add-on's state when a behaviour drives one of them
ShapeIdle ==
    /\ units = [system |-> "METRIC", scale_length |-> 10, scale_error |-> -1]
    /\ op = [bake_normal |-> TRUE, normal_shape_key_index |-> 1,
             num_shape_keys |-> 1, start_uv_index |-> 1]
    /\ loops = <<>> /\ key_blocks = <<>> /\ vertex_colors = <<>>
    /\ uv_layers = <<>> /\ offsets = <<>>

FrameIdle ==
    /\ scene = [frame_start |-> 1, frame_end |-> 1, frame_step |-> 1, frame_current |-> 1,
                coord_system |-> "BLENDER", target_units |-> "CM", vertex_group_name |-> ""]
    /\ objects = <<>> /\ ob_uv_layers = <<>>
    /\ anim = [amp |-> 0, dir |-> "skew"] /\ float_excess = FALSE
    /\ data_meshes = {} /\ images = <<>> /\ meshes = <<>>
    /\ max_deviation = 0 /\ scale_factor = [value |-> 1, is_float |-> TRUE]
    /\ deviation_order = <<>> /\ bake_calls = <<>> /\ removed_reads = {}

InitShape ==
    /\ addon = "mesh_morpher"
    /\ runs = 0 /\ result = "NONE" /\ report = ""
    /\ units \in UnitSettings
    /\ op \in OpSettings
    /\ loops \in LoopOrders
    /\ \E n \in 0 .. 5 : key_blocks = KeyBlocks(n)
    /\ vertex_colors \in {<<>>, <<NewColorLayer(Len(loops))>>}
    /\ \E n \in 0 .. UV_LAYER_LIMIT : uv_layers = ExistingUV(n, Len(loops))
    /\ offsets = <<>>
    /\ FrameIdle

(***************************************************************************)
(* Inputs of the frame bake                                                *)
(***************************************************************************)
\* Two orders of the face corners of a mesh of n vertices
LoopOrdersOf(n) == {[i \in 1 .. (n + 1) |-> (i - 1) % n], [i \in 1 .. n |-> n - i]}

\* ob.vertex_groups: no group, or a group "G" with some members
GroupChoices(n) == {<<>>} \cup {[g \in {"G"} |-> S] : S \in {{}, {0}, {n - 1}, 0 .. (n - 1)}}

ObjectsA == {[name |-> "A", shape |-> 0, nverts |-> n, loops |-> l,
              vertex_groups |-> g, modifiers |-> <<"ARMATURE">>] :
                n \in 1 .. MaxVerts, l \in UNION {LoopOrdersOf(k) : k \in 1 .. MaxVerts},
                g \in UNION {GroupChoices(k) : k \in 1 .. MaxVerts}}
ValidObject(ob) ==
    /\ ob.loops \in LoopOrdersOf(ob.nverts)
    /\ ob.vertex_groups \in GroupChoices(ob.nverts)
ObjectsB == {[name |-> "B", shape |-> 1, nverts |-> 1, loops |-> <<0, 0>>,
              vertex_groups |-> g, modifiers |-> <<>>] : g \in {<<>>, [x \in {"G"} |-> {0}]}}
ObjectBad == [name |-> "A", shape |-> 0, nverts |-> 1, loops |-> <<0>>,
              vertex_groups |-> <<>>, modifiers |-> <<"ARMATURE", "SUBSURF">>]

ObjectLists ==
    {<<>>, <<ObjectBad>>, <<[ObjectBad EXCEPT !.modifiers = <<"DATA_TRANSFER">>]>>}
    \cup {<<a>> : a \in {x \in ObjectsA : ValidObject(x)}}
    \cup {<<a, b>> : a \in {x \in ObjectsA : ValidObject(x)}, b \in ObjectsB}

\* Every frame_end up to MaxFrameEnd with step 1, and one scene with step 2
FrameSettings == {<<e, 1>> : e \in 1 .. MaxFrameEnd} \cup {<<MaxFrameEnd + 1, 2>>}
Scenes == {[frame_start |-> 1, frame_end |-> fs[1], frame_step |-> fs[2],
            frame_current |-> 1, coord_system |-> c, target_units |-> u,
            vertex_group_name |-> g] :
              fs \in FrameSettings, c \in {"BLENDER", "UE"},
              u \in {"MM", "CM", "DM", "M"}, g \in {"", "G", "H"}}

\* The animations tried: none, one along a skew direction (no deviation is a
\* whole number of millimetres) and one along Z (every deviation is a multiple
\* of 5 mm, so that exact multiples of the allowed deviation occur)
Animations == {[amp |-> 0, dir |-> "skew"], [amp |-> 4, dir |-> "skew"],
               [amp |-> 5, dir |-> "axial"]}

InitFrame ==
    /\ addon = "vertex_animation"
    /\ runs = 0 /\ result = "NONE" /\ report = ""
    /\ scene \in Scenes
    /\ objects \in ObjectLists
    /\ \E n \in {0, UV_LAYER_LIMIT} :
         ob_uv_layers = [i \in 1 .. Len(objects) |-> ExistingUV(n, Len(objects[i].loops))]
    /\ anim \in Animations
    /\ float_excess \in (IF anim.dir = "axial" THEN BOOLEAN ELSE {FALSE})
    /\ data_meshes = {} /\ images = <<>> /\ meshes = <<>>
    /\ max_deviation = 0 /\ scale_factor = [value |-> 1, is_float |-> TRUE]
    /\ deviation_order = <<>> /\ bake_calls = <<>> /\ removed_reads = {}
    /\ ShapeIdle

(***************************************************************************)
(* Inputs of update_uv_layer on its own                                    *)
(***************************************************************************)
RECURSIVE SeqsUpTo(_, _)
\* All sequences over S of length at most n
SeqsUpTo(S, n) == IF n = 0 THEN {<<>>}
                  ELSE LET shorter == SeqsUpTo(S, n - 1)
                       IN  shorter \cup {Append(q, x) : q \in shorter, x \in S}

UVObjects == UNION {
    {[name |-> "M", shape |-> 0, nverts |-> n, loops |-> l, vertex_groups |-> g,
      modifiers |-> <<>>] :
        l \in SeqsUpTo(0 .. (n - 1), MaxUVLoops),
        g \in {<<>>} \cup {[x \in {"G"} |-> S] : S \in SUBSET (0 .. (n - 1))}}
    : n \in 1 .. MaxUVVerts}

InitUV ==
    /\ addon = "update_uv_layer"
    /\ runs = 0 /\ result = "NONE" /\ report = ""
    /\ scene \in [frame_start : {1}, frame_end : {1}, frame_step : {1}, frame_current : {1},
                  coord_system : {"BLENDER"}, target_units : {"CM"},
                  vertex_group_name : {"", "G", "H"}]
    /\ \E ob \in UVObjects :
         /\ objects = <<ob>>
         /\ \E n \in {0, 1, UV_LAYER_LIMIT} :
              ob_uv_layers = <<ExistingUV(n, Len(ob.loops))>>
    /\ anim = [amp |-> 0, dir |-> "skew"] /\ float_excess = FALSE
    /\ data_meshes = {} /\ images = <<>> /\ meshes = <<>>
    /\ max_deviation = 0 /\ scale_factor = [value |-> 1, is_float |-> TRUE]
    /\ deviation_order = <<>> /\ bake_calls = <<>> /\ removed_reads = {}
    /\ ShapeIdle

\* update_uv_layer(ob, context.scene.vertex_group_name) on the one object
UpdateUVLayer ==
    /\ addon = "update_uv_layer"
    /\ runs < MaxRuns
    /\ runs' = runs + 1
    /\ \E uv \in {update_uv_layer(objects[1], ob_uv_layers[1], scene.vertex_group_name)} :
         /\ ob_uv_layers' = <<uv.layers>>
         /\ result' = IF uv.raised # "none" THEN uv.raised ELSE "RETURNED"
    /\ UNCHANGED <<addon, report, shape_vars, scene, objects, anim, float_excess,
                   data_meshes, images, meshes, max_deviation, scale_factor,
                   deviation_order, bake_calls, removed_reads>>

(***************************************************************************)
(* Specifications                                                          *)
(***************************************************************************)
Init == InitShape \/ InitFrame
Next == ProcessShapeKeys \/ ProcessAnimMeshes
Spec == Init /\ [][Next]_vars

SpecShape == InitShape /\ [][ProcessShapeKeys]_vars
SpecFrame == InitFrame /\ [][ProcessAnimMeshes]_vars
SpecUV == InitUV /\ [][UpdateUVLayer]_vars

(***************************************************************************)
(* Properties                                                              *)
(***************************************************************************)
IsRun == runs' = runs + 1

\* execute() of the shape-key bake gets as far as pack_offsets
ReachesPackOffsets ==
    /\ addon = "mesh_morpher"
    /\ units.system = "METRIC" /\ Round2(units.scale_length, units.scale_error) = 1
    /\ Len(key_blocks) >= 1 + op.num_shape_keys
    /\ (op.bake_normal => op.normal_shape_key_index < Len(key_blocks))

\* ceil(3 * numShapeKeys / 2)
LayersNeeded(numShapeKeys) == (3 * numShapeKeys + 1) \div 2

\* C1: for every numShapeKeys in 1..4 and startLayer in 0..7, pack_offsets uses
\* ceil(3*numShapeKeys/2) layers (the mesh ends with max(existing, startLayer +
\* layersNeeded) layers) and raises the capacity error if and only if
\* startLayer + layersNeeded > 8; a total of exactly 8 succeeds.
C1_CapacityIff ==
    [][(IsRun /\ ReachesPackOffsets) =>
         LET total == op.start_uv_index + LayersNeeded(op.num_shape_keys)
         IN  /\ (result' = "CANCELLED" /\ report' = MsgCapacity) <=> (total > 8)
             /\ (total <= 8) =>
                   /\ result' = "FINISHED"
                   /\ Len(uv_layers') = Max(Len(uv_layers), total)]_vars

C1_Witness ==
    /\ addon = "mesh_morpher" /\ runs >= 1 /\ result = "FINISHED"
    /\ op.start_uv_index + LayersNeeded(op.num_shape_keys) = 8
    /\ Len(uv_layers) = 8

\* C2: a shape-key bake that ends in failure leaves the mesh as it was: no colour
\* attribute created, renamed or written, no UV layer created or written.
C2_FailureLeavesMesh ==
    [][(IsRun /\ addon = "mesh_morpher" /\ result' = "CANCELLED") =>
         (vertex_colors' = vertex_colors /\ uv_layers' = uv_layers)]_vars

\* C3: for every target unit of the table, with maxDeviation from
\* find_max_deviation and s from calculate_scale, every delta d of every
\* (snapshot, vertex) pair satisfies |d| * s <= maxAllowed (both sides squared;
\* the tolerance is below the model's resolution).
C3_NoClipping ==
    (addon = "vertex_animation" /\ result = "FINISHED"
     /\ scene.target_units \in {"MM", "CM", "DM", "M"}) =>
        \A i \in 1 .. Len(meshes) : \A v \in 1 .. Len(meshes[i].vertices) :
            LET d == Sub(meshes[i].vertices[v].co, meshes[1].vertices[v].co)
                allowed == get_max_allowed_deviation(scene.target_units)
            IN  LengthSq(d) * scale_factor.value * scale_factor.value <= allowed * allowed

\* The CoordinateTransform table of the frame scheme for the engine convention
EngineTransform(d) == <<-d[2], -d[1], d[3]>>

\* C5: for every shape key k and every vertex, channels 3(k-1), 3(k-1)+1, 3(k-1)+2
\* of get_shape_key_offsets are the X, Y, Z of the engine transform (-y, -x, z) of
\* position_k - position_base.
C5_ChannelsAreEngineTransform ==
    (addon = "mesh_morpher" /\ result = "FINISHED") =>
        \A k \in 1 .. op.num_shape_keys : \A v \in 0 .. (Len(At(key_blocks, 0).data) - 1) :
            LET t == EngineTransform(Sub(At(At(key_blocks, k).data, v),
                                         At(At(key_blocks, 0).data, v)))
            IN  \A a \in 0 .. 2 : At(At(offsets, 3 * (k - 1) + a), v) = t[a + 1]

\* No vertex group is active: the name is empty or names no group of an object
NoGroupActive ==
    \/ scene.vertex_group_name = ""
    \/ \A i \in 1 .. Len(objects) : scene.vertex_group_name \notin DOMAIN objects[i].vertex_groups

\* The CoordinateTransform table of the frame scheme
FrameTransform(coord_system, d) ==
    IF coord_system = "BLENDER" THEN <<d[1], -d[2], d[3]>> ELSE <<-d[2], -d[1], d[3]>>

\* C6: with no vertex group active, the offset grid of H snapshots of W vertices
\* holds at row r, column v the value transform(position[H-1-r][v] -
\* position[0][v]) * scaleFactor with alpha 1 (the last snapshot in row 0, the
\* base in the last row), and find_max_deviation visits the snapshots in the
\* same reverse order.
C6_ReverseRows ==
    (addon = "vertex_animation" /\ NoGroupActive) =>
        \A c \in 1 .. Len(bake_calls) :
            LET b == bake_calls[c]
                W == Len(meshes[1].vertices)
                H == Len(meshes)
            IN  /\ Len(b.offsets) = 4 * W * H
                /\ \A r \in 0 .. (H - 1) : \A v \in 0 .. (W - 1) :
                     LET t == FrameTransform(scene.coord_system,
                                  Sub(At(At(meshes, H - 1 - r).vertices, v).co,
                                      At(At(meshes, 0).vertices, v).co))
                         at == 4 * (r * W + v)
                     IN  /\ b.offsets[at + 1] = t[1] * scale_factor.value
                         /\ b.offsets[at + 2] = t[2] * scale_factor.value
                         /\ b.offsets[at + 3] = t[3] * scale_factor.value
                         /\ b.offsets[at + 4] = 1
                /\ b.order = [i \in 1 .. H |-> meshes[H + 1 - i].id]
                /\ deviation_order = b.order

C6_Witness ==
    /\ addon = "vertex_animation" /\ result = "FINISHED" /\ NoGroupActive
    /\ scene.coord_system = "UE" /\ Len(bake_calls) >= 1
    /\ Len(meshes) >= 2 /\ Len(meshes[1].vertices) >= 2 /\ max_deviation > 0

\* C7: in every successful frame bake, whatever the group choice, the offset data
\* and the normal data handed to bake_vertex_data each hold exactly width * height
\* cells of 4 channels, width the total vertex count of the selected objects and
\* height the number of sampled frames, which is also the size the images get.
C7_GridIsFull ==
    (addon = "vertex_animation" /\ result = "FINISHED") =>
        /\ Len(bake_calls) = Len(objects)
        /\ \A c \in 1 .. Len(bake_calls) :
            LET width == SumVerts(objects)
                height == Len(frame_range(scene))
            IN  /\ bake_calls[c].size = <<width, height>>
                /\ Len(bake_calls[c].offsets) = 4 * width * height
                /\ Len(bake_calls[c].normals) = 4 * width * height

C7_Witness ==
    /\ addon = "vertex_animation" /\ result = "FINISHED"
    /\ Len(objects) = 1 /\ objects[1].nverts >= 2 /\ Len(frame_range(scene)) >= 2
    /\ "G" \in DOMAIN objects[1].vertex_groups /\ objects[1].vertex_groups["G"] = {0}
    /\ Len(bake_calls) = 1 /\ Len(bake_calls[1].offsets) = 4 * objects[1].nverts * Len(meshes)

\* "<k><axis>" of channel c: 1-based shape key, axis X, Y or Z
ChannelLabel(c) == ToString((c \div 3) + 1) \o At(Axes, c % 3)

\* The name that says which channels layer i of a bake of nch channels holds
LayerNameFor(i, nch) ==
    IF 2 * i + 1 < nch
    THEN "Morph " \o ChannelLabel(2 * i) \o " " \o ChannelLabel(2 * i + 1)
    ELSE "Morph " \o ChannelLabel(2 * i)

\* C8: after a successful pack_offsets, whatever the number of UV layers the mesh
\* had, every layer it created and wrote (index startLayer + i) is named after
\* the channels 2i and 2i+1 written into it.
C8_LayerNamesMatchChannels ==
    [][(IsRun /\ addon = "mesh_morpher" /\ result' = "FINISHED") =>
         \A i \in 0 .. (LayersNeeded(op.num_shape_keys) - 1) :
            (op.start_uv_index + i >= Len(uv_layers)) =>
                At(uv_layers', op.start_uv_index + i).name
                    = LayerNameFor(i, 3 * op.num_shape_keys)]_vars

\* Fractions <<num, den>> with positive denominators
FracLess(a, b) == a[1] * b[2] < b[1] * a[2]
FracEq(a, b) == a[1] * b[2] = b[1] * a[2]

\* The vertices the GroupPartitioner makes active
ActiveVertices(ob, name) ==
    IF name = "" \/ name \notin DOMAIN ob.vertex_groups THEN 0 .. (ob.nverts - 1)
    ELSE ob.vertex_groups[name]

\* C9: after update_uv_layer, with all vertices active when the group is absent
\* or unresolved: the active vertices have pairwise distinct, evenly spaced U
\* strictly inside (0,1); every inactive vertex has one reserved U, strictly below
\* every active U; every V is 0.5; all loops of a vertex carry the same UV.
C9_UVPlacement ==
    (addon = "update_uv_layer" /\ runs >= 1 /\ result = "RETURNED") =>
        LET ob == objects[1]
            layer == ob_uv_layers[1][LayerIndex(ob_uv_layers[1], "VAT")]
            active == ActiveVertices(ob, scene.vertex_group_name)
            L == 1 .. Len(ob.loops)
            act == {l \in L : ob.loops[l] \in active}
            inact == L \ act
            U(l) == layer.data[l][1]
            gap == <<1, Cardinality(active) + 1>>
        IN  /\ (ob.loops # <<>>) =>
                   /\ LayerIndex(ob_uv_layers[1], "VAT") # 0
                   /\ Len(layer.data) = Len(ob.loops)
            /\ \A l \in L : FracEq(layer.data[l][2], <<1, 2>>)
            /\ \A l, m \in L : ob.loops[l] = ob.loops[m] => layer.data[l] = layer.data[m]
            /\ \A l \in act : FracLess(<<0, 1>>, U(l)) /\ FracLess(U(l), <<1, 1>>)
            /\ \A l, m \in act : ob.loops[l] # ob.loops[m] => ~FracEq(U(l), U(m))
            /\ \A l \in act :
                  \/ \A m \in act : ~FracLess(U(m), U(l))
                  \/ \E m \in act : FracEq(<<U(m)[1] * gap[2] + gap[1] * U(m)[2],
                                             U(m)[2] * gap[2]>>, U(l))
            /\ \A l, m \in inact : FracEq(U(l), U(m))
            /\ \A l \in inact : \A m \in act : FracLess(U(l), U(m))

C9_Witness ==
    /\ addon = "update_uv_layer" /\ runs >= 1 /\ result = "RETURNED"
    /\ scene.vertex_group_name = "G" /\ "G" \in DOMAIN objects[1].vertex_groups
    /\ Cardinality(objects[1].vertex_groups["G"]) = 2
    /\ \E l, m, n \in 1 .. Len(objects[1].loops) :
          /\ objects[1].loops[l] \in objects[1].vertex_groups["G"]
          /\ objects[1].loops[m] \in objects[1].vertex_groups["G"]
          /\ objects[1].loops[l] # objects[1].loops[m]
          /\ objects[1].loops[n] \notin objects[1].vertex_groups["G"]

\* The resources an encode pass emits
Emitted == <<uv_layers, vertex_colors, ob_uv_layers, images>>

\* C10: a successful pass run again on the same inputs and configuration leaves
\* the emitted UV layers, colour attributes and images as the first run left them.
C10_Idempotent ==
    [][(IsRun /\ result = "FINISHED" /\ result' = "FINISHED") => Emitted' = Emitted]_vars

C10_Witness ==
    /\ runs = 2 /\ result = "FINISHED" /\ addon = "vertex_animation"
    /\ Len(images) = 2 /\ images[1].pixels # <<>>

\* C11: in a frame bake over any number k >= 1 of selected objects, no snapshot
\* mesh is read after it has been removed from data.meshes: the set of snapshots
\* that get_vertex_data read while they were already removed stays empty.
C11_NoReadAfterRemove ==
    (addon = "vertex_animation" /\ Len(objects) >= 1) => removed_reads = {}

\* The vertices whose cells get_vertex_data stored: in a pass that finishes, all
EmittedVertices(me) == 0 .. (Len(me.vertices) - 1)

\* The column of vertex v: its position among the emitted vertices in index order
ColumnOf(v, emitted) == Cardinality({u \in emitted : u < v})

\* floor(U * W) for a fraction U = <<num, den>>
TexelColumn(U, W) == (U[1] * W) \div U[2]

\* C12: in a finished frame bake over a single object, for every active vertex
\* whose data get_vertex_data stored, floor(U * W) of the U that update_uv_layer
\* wrote on its loops equals the vertex's column in the pixel grid of width W.
C12_UAddressesColumn ==
    (addon = "vertex_animation" /\ result = "FINISHED" /\ Len(objects) = 1
     /\ Len(bake_calls) = 1) =>
        LET ob == objects[1]
            layer == ob_uv_layers[1][LayerIndex(ob_uv_layers[1], "VAT")]
            W == bake_calls[1].size[1]
            active == ActiveVertices(ob, scene.vertex_group_name)
            emitted == EmittedVertices(meshes[1])
        IN  \A l \in 1 .. Len(ob.loops) :
                (ob.loops[l] \in active /\ ob.loops[l] \in emitted) =>
                    TexelColumn(layer.data[l][1], W) = ColumnOf(ob.loops[l], emitted)

====
